---- MODULE Spec2Model ----
(***************************************************************************)
(* A model of GTPlanner's two control mechanisms:                          *)
(*   - the concurrent research flow (research_flow.py): ResearchFlow,      *)
(*     TracedResearchFlow and ConcurrentResearchNode, which fan a batch of *)
(*     keywords out to one sub-pipeline per keyword and join the results;  *)
(*   - the ReAct orchestrator node (react_orchestrator_node.py), one turn  *)
(*     of which is prep_async, exec_async, post_async.                     *)
(* The two are independent entry points; SpecResearch and SpecReact are    *)
(* their specifications, SpecTools is a short session of the node with a   *)
(* backend that answers with several invocations and inline markers, and   *)
(* SpecShared is a session on a node whose exec_async others call too.     *)
(* Strings that are Chinese in the source are written in ASCII here.       *)
(***************************************************************************)
EXTENDS Integers, Sequences, FiniteSets, TLC

VARIABLES
    \* ---- research flow ----
    entry,              \* which entry point runs: "flow" = ResearchFlow.run_async,
                        \* "node" = TracedResearchFlow.run_async called directly
    rpc,                \* position of the orchestrating task
    shared,             \* the caller's shared dict (the keys the flow reads/writes)
    subflows_and_data,  \* ConcurrentResearchNode._subflows_and_data
    task,               \* the gather's child tasks, one per sub-pipeline
    execution_results,  \* ConcurrentResearchNode._execution_results
    prep_res,           \* what the node's prep_async returned
    exec_res,           \* what the node's exec_async returned
    flow_result,        \* the action the node returned, which TracedResearchFlow
                        \* .post_async hands back as the result of its run_async
    run_result,         \* what ResearchFlow.run_async returned
    findings_writes,    \* history: number of assignments to shared["research_findings"]
    flow_exception,     \* the exception that left self.flow.run_async, or None
    \* ---- ReAct orchestrator node ----
    tpc,                \* position in the turn: awaiting_turn, deciding, calling
                        \* (exec_async is suspended at its await), applying;
                        \* cancelled when the turn was cancelled at that await
    react_shared,       \* the session's shared dict (the keys the node reads/writes)
    performance_stats,  \* ReActOrchestratorNode.performance_stats
    context,            \* the unified message context (core.unified_context)
    prep_result,        \* what prep_async returned this turn
    step_outcome,       \* what exec_async returned this turn
    transition,         \* what post_async returned this turn
    turn,               \* history: what happened in the current turn
    concurrent_call,    \* another call of exec_async on the same node (the
                        \* stats are the node's, shared by all who run it):
                        \* whether it is suspended at its await, and how many
                        \* such calls were started
    env                 \* the session's environment: "plain" when the backend's
                        \* replies hold no inline marker and few invocations,
                        \* "rich" when they may hold markers and more
                        \* invocations, "shared" when other calls of
                        \* exec_async on the node overlap with the session's

rvars == <<entry, rpc, shared, subflows_and_data, task, execution_results,
           prep_res, exec_res, flow_result, run_result, findings_writes,
           flow_exception>>

tvars == <<tpc, react_shared, performance_stats, context, prep_result,
           step_outcome, transition, turn, concurrent_call, env>>

vars == <<rvars, tvars>>

-----------------------------------------------------------------------------
\* Bounds of the model.
MaxKeywords == 3
MaxTurns == 2
MaxToolCalls == 1
\* How many turns of one session may have a collaborator of post_async raise.
MaxPostFaults == 1
\* Turns and invocations per reply of a session in the "rich" environment.
MaxRichTurns == 1
MaxRichToolCalls == 2
\* Turns of a session in the "shared" environment, and how many other calls
\* of exec_async may overlap with the session's calls.
MaxSharedTurns == 2
MaxConcurrentCalls == 1

\* The keywords, focus areas and sub-pipeline results the inputs are drawn from.
KeywordPool == {"auth", "billing", "cache"}
FocusPool == {<<>>, <<"security">>}
ResultPool == {"{risk:low}"}
ErrorPool == {"timeout"}

\* Python's None, a dict key that is absent, and the empty dict {}.
None == "None"
Missing == "<missing>"
EmptyDict == "{}"

RECURSIVE SeqsUpTo(_, _)
SeqsUpTo(S, n) ==
    IF n = 0 THEN {<<>>}
    ELSE LET shorter == SeqsUpTo(S, n - 1)
         IN shorter \cup {Append(s, x) : s \in {t \in shorter : Len(t) = n - 1}, x \in S}

\* A dict-valued variable or key that holds no dict (None, or the key is absent).
NoDict == [absent |-> TRUE]

\* Python truthiness: of a list, of a string (or None), and of the value
\* dict.get returns for a dict-valued key (None when absent, else the dict,
\* which is falsy only when it has no keys).
TruthyList(v) == Len(v) > 0
TruthyStr(v) == v # "" /\ v # None /\ v # Missing
TruthyDict(v) == v # NoDict /\ DOMAIN v # {}

\* dict.get(key, default) on a field that holds Missing when the key is absent.
Get(v, default) == IF v = Missing THEN default ELSE v

RECURSIVE Gcd(_, _)
Gcd(a, b) == IF b = 0 THEN a ELSE Gcd(b, a % b)

\* Python's true division a / b of two non-negative ints (b > 0), as an exact
\* fraction in lowest terms; the int 0 is the fraction 0/1.
Zero == [num |-> 0, den |-> 1]
TrueDiv(a, b) == LET g == Gcd(a, b) IN [num |-> a \div g, den |-> b \div g]

-----------------------------------------------------------------------------
\* ---- research flow: initial state ----

InitShared(kws, fas) ==
    [research_keywords |-> kws,
     focus_areas |-> fas,
     project_context |-> "ctx",
     research_findings |-> NoDict,
     research_error |-> Missing]

-----------------------------------------------------------------------------
\* ---- ResearchFlow.run_async, first part: parameter validation ----

MissingKeywordsError == "missing research keywords"
MissingFocusError == "missing focus areas"

run_async_validate_keywords_only ==
    /\ entry = "flow"
    /\ rpc = "start"
    /\ IF ~TruthyList(shared.research_keywords)
       THEN /\ shared' = [shared EXCEPT !.research_error = MissingKeywordsError]
            /\ run_result' = FALSE
            /\ rpc' = "returned"
       ELSE /\ rpc' = "validated"
            /\ UNCHANGED <<shared, run_result>>
    /\ UNCHANGED <<entry, subflows_and_data, task, execution_results,
                   prep_res, exec_res, flow_result, findings_writes,
                   flow_exception>>
    /\ UNCHANGED tvars

run_async_validate ==
    /\ entry = "flow"
    /\ rpc = "start"
    /\ IF ~TruthyList(shared.research_keywords)
       THEN /\ shared' = [shared EXCEPT !.research_error = MissingKeywordsError]
            /\ run_result' = FALSE
            /\ rpc' = "returned"
       ELSE IF ~TruthyList(shared.focus_areas)
       THEN /\ shared' = [shared EXCEPT !.research_error = MissingFocusError]
            /\ run_result' = FALSE
            /\ rpc' = "returned"
       ELSE /\ rpc' = "validated"
            /\ UNCHANGED <<shared, run_result>>
    /\ UNCHANGED <<entry, subflows_and_data, task, execution_results,
                   prep_res, exec_res, flow_result, findings_writes,
                   flow_exception>>
    /\ UNCHANGED tvars

\* str(e) of the exceptions that may leave the flow's run_async: one raised by
\* the sub-pipeline factory, one raised by the flow engine itself.
FactoryError == "no backend"
EngineError == "boom"

\* ---- the flow engine (pocketflow's AsyncFlow.run_async, under the tracing
\* decorator), an external collaborator, raises an Exception between two steps
\* of the flow: before the flow's prep_async, between the node's steps, or
\* after the node's post_async ----
EnginePositions == {"flow_prepped", "node_prepped", "node_executed", "node_posted"}
flow_run_async_raises ==
    /\ \/ entry = "flow" /\ rpc = "validated"
       \/ entry = "node" /\ rpc = "start"
       \/ rpc \in EnginePositions
    /\ flow_exception' = EngineError
    /\ rpc' = "flow_raised"
    /\ UNCHANGED <<entry, shared, subflows_and_data, task, execution_results,
                   prep_res, exec_res, flow_result, run_result, findings_writes>>
    /\ UNCHANGED tvars

\* ---- TracedResearchFlow.prep_async: the flow-level preparation ----
flow_prep_async ==
    /\ \/ entry = "flow" /\ rpc = "validated"
       \/ entry = "node" /\ rpc = "start"
    /\ rpc' = "flow_prepped"
    /\ UNCHANGED <<entry, shared, subflows_and_data, task, execution_results,
                   prep_res, exec_res, flow_result, run_result, findings_writes,
                   flow_exception>>
    /\ UNCHANGED tvars

\* ---- ConcurrentResearchNode.prep_async ----
KeywordData(keyword, fas, ctx) ==
    [current_keyword |-> keyword,
     focus_areas |-> fas,
     project_context |-> ctx,
     keyword_result |-> Missing]

\* The factory create_keyword_research_subflow (line 35) is called once per
\* keyword and may raise; the exception leaves prep_async before line 44
\* assigns self._subflows_and_data, and leaves the flow's run_async.
CRN_prep_async ==
    /\ rpc = "flow_prepped"
    /\ \E factory_raises \in BOOLEAN :
          LET research_keywords == shared.research_keywords
              focus_areas == shared.focus_areas
              project_context == shared.project_context
          IN /\ factory_raises => research_keywords # <<>>
             /\ IF factory_raises
                THEN /\ flow_exception' = FactoryError
                     /\ rpc' = "flow_raised"
                     /\ UNCHANGED <<subflows_and_data, prep_res>>
                ELSE /\ subflows_and_data' =
                           [i \in 1..Len(research_keywords) |->
                               [subflow |-> i,
                                data |-> KeywordData(research_keywords[i], focus_areas,
                                                     project_context)]]
                     /\ prep_res' = [keywords |-> research_keywords,
                                     focus_areas |-> focus_areas,
                                     project_context |-> project_context,
                                     total_keywords |-> Len(research_keywords)]
                     /\ rpc' = "node_prepped"
                     /\ UNCHANGED flow_exception
    /\ UNCHANGED <<entry, shared, task, execution_results, exec_res,
                   flow_result, run_result, findings_writes>>
    /\ UNCHANGED tvars

\* ---- ConcurrentResearchNode.exec_async, up to the await of asyncio.gather:
\* every sub-pipeline's run_async(data) is started as a child task ----
CRN_exec_async_launch ==
    /\ rpc = "node_prepped"
    /\ task' = [i \in 1..Len(subflows_and_data) |->
                   [state |-> "running", raised |-> FALSE, error |-> None]]
    /\ rpc' = "gathering"
    /\ UNCHANGED <<entry, shared, subflows_and_data, execution_results, prep_res,
                   exec_res, flow_result, run_result, findings_writes,
                   flow_exception>>
    /\ UNCHANGED tvars

\* A sub-pipeline may add a focus area to the focus areas of its input record
\* when it is not there yet (list.append on data["focus_areas"]).
AddedFocusArea == "general"
AddFocusArea(fas, adds) ==
    IF adds /\ \A k \in 1..Len(fas) : fas[k] # AddedFocusArea
    THEN Append(fas, AddedFocusArea)
    ELSE fas

\* ---- one sub-pipeline (keyword_research_flow, an external collaborator) runs
\* to its end on its own input record: it may leave a keyword_result in the
\* record, it may change the record's focus areas in place, and it either
\* returns or raises an Exception.  prep_async put one and the same list
\* object, shared["focus_areas"], into prep_res and into every input record
\* (lines 28, 38, 48), so a change made to that list in place shows in all of
\* them ----
subflow_run_async(i) ==
    /\ rpc = "gathering"
    /\ i \in 1..Len(task)
    /\ task[i].state = "running"
    /\ \E written \in ResultPool \cup {Missing}, raises \in BOOLEAN, err \in ErrorPool,
          adds \in BOOLEAN :
          LET focus_areas == AddFocusArea(subflows_and_data[i].data.focus_areas, adds)
          IN /\ subflows_and_data' =
                   [j \in 1..Len(subflows_and_data) |->
                       [subflows_and_data[j] EXCEPT
                           !.data.focus_areas = focus_areas,
                           !.data.keyword_result = IF j = i THEN written ELSE @]]
             /\ shared' = [shared EXCEPT !.focus_areas = focus_areas]
             /\ prep_res' = [prep_res EXCEPT !.focus_areas = focus_areas]
             /\ task' = [task EXCEPT ![i] =
                            [state |-> "done", raised |-> raises,
                             error |-> IF raises THEN err ELSE None]]
    /\ UNCHANGED <<entry, rpc, execution_results, exec_res,
                   flow_result, run_result, findings_writes,
                   flow_exception>>
    /\ UNCHANGED tvars

\* asyncio.gather(..., return_exceptions=True) resumes the awaiting exec_async
\* only when every child task is done, whether it returned or raised.
GatherDone_any(tasks) == \E i \in 1..Len(tasks) : tasks[i].state = "done"

GatherDone(tasks) == \A i \in 1..Len(tasks) : tasks[i].state = "done"

\* The list gather returns: one slot per child, in the order the children were
\* passed; a child that raised contributes its exception object.
GatherResults(tasks) ==
    [i \in 1..Len(tasks) |->
        [is_exception |-> tasks[i].raised,
         str |-> IF tasks[i].raised THEN tasks[i].error ELSE None]]

\* zip(results, subflows_and_data): the data record paired with results[i].
ZipData_last(sd, i) == sd[Len(sd)].data

ZipData(sd, i) == sd[i].data

\* The loop of exec_async, lines 75-89: the entries appended to
\* successful_results and failed_results, in loop order.
RECURSIVE SuccessfulResults_needs_result(_, _, _)
SuccessfulResults_needs_result(results, sd, i) ==
    IF i > Len(results) \/ i > Len(sd) THEN <<>>
    ELSE LET data == ZipData(sd, i)
             rest == SuccessfulResults_needs_result(results, sd, i + 1)
         IN IF results[i].is_exception \/ data.keyword_result = Missing THEN rest
            ELSE <<[keyword |-> data.current_keyword,
                    result |-> data.keyword_result]>> \o rest

RECURSIVE SuccessfulResults(_, _, _)
SuccessfulResults(results, sd, i) ==
    IF i > Len(results) \/ i > Len(sd) THEN <<>>
    ELSE LET data == ZipData(sd, i)
             rest == SuccessfulResults(results, sd, i + 1)
         IN IF results[i].is_exception THEN rest
            ELSE <<[keyword |-> data.current_keyword,
                    result |-> Get(data.keyword_result, EmptyDict)]>> \o rest

FailedResults_dropped(results, sd, i) == <<>>

RECURSIVE FailedResults(_, _, _)
FailedResults(results, sd, i) ==
    IF i > Len(results) \/ i > Len(sd) THEN <<>>
    ELSE LET data == ZipData(sd, i)
             rest == FailedResults(results, sd, i + 1)
         IN IF results[i].is_exception
            THEN <<[keyword |-> data.current_keyword,
                    error |-> results[i].str]>> \o rest
            ELSE rest

\* successful_count / len(keywords) if keywords else 0
SuccessRate_floordiv(successful_count, keywords) ==
    IF TruthyList(keywords)
    THEN [num |-> successful_count \div Len(keywords), den |-> 1]
    ELSE Zero

SuccessRate(successful_count, keywords) ==
    IF TruthyList(keywords) THEN TrueDiv(successful_count, Len(keywords)) ELSE Zero

\* ---- ConcurrentResearchNode.exec_async, from the return of gather on ----
CRN_exec_async_collect ==
    /\ rpc = "gathering"
    /\ GatherDone(task)
    /\ LET results == GatherResults(task)
           keywords == prep_res.keywords
           successful_results == SuccessfulResults(results, subflows_and_data, 1)
           failed_results == FailedResults(results, subflows_and_data, 1)
           successful_count == Len(successful_results)
           failed_count == Len(failed_results)
       IN /\ execution_results' = [successful_results |-> successful_results,
                                   failed_results |-> failed_results]
          /\ exec_res' = [statistics |-> [total |-> Len(keywords),
                                          successful |-> successful_count,
                                          failed |-> failed_count],
                          success_rate |-> SuccessRate(successful_count, keywords)]
    /\ rpc' = "node_executed"
    /\ UNCHANGED <<entry, shared, subflows_and_data, task, prep_res,
                   flow_result, run_result, findings_writes,
                   flow_exception>>
    /\ UNCHANGED tvars

\* ---- ConcurrentResearchNode.post_async ----

\* Lines 122-139: the successful entries first, then the failed ones.
SuccessEntries(successful_results) ==
    [i \in 1..Len(successful_results) |->
        [keyword |-> successful_results[i].keyword,
         success |-> TRUE,
         result |-> successful_results[i].result]]

FailureEntries(failed_results) ==
    [i \in 1..Len(failed_results) |->
        [keyword |-> failed_results[i].keyword,
         success |-> FALSE,
         error |-> failed_results[i].error]]

KeywordResults_failed_first(successful_results, failed_results) ==
    FailureEntries(failed_results) \o SuccessEntries(successful_results)

KeywordResults(successful_results, failed_results) ==
    SuccessEntries(successful_results) \o FailureEntries(failed_results)

\* _generate_summary: the fixed "no results" sentence when nothing succeeded,
\* else a sentence built from total, successful and the focus areas.
NoResultsSummary == "no valid results were obtained"
_generate_summary(keywords, focus_areas, successful, total) ==
    IF successful = 0 THEN [text |-> NoResultsSummary]
    ELSE [total |-> total, successful |-> successful, focus_areas |-> focus_areas]

CRN_post_async ==
    /\ rpc = "node_executed"
    /\ LET statistics == exec_res.statistics
           keyword_results == KeywordResults(execution_results.successful_results,
                                             execution_results.failed_results)
           summary == _generate_summary(prep_res.keywords, prep_res.focus_areas,
                                        statistics.successful, statistics.total)
           research_findings ==
               [project_context |-> prep_res.project_context,
                research_keywords |-> prep_res.keywords,
                focus_areas |-> prep_res.focus_areas,
                total_keywords |-> statistics.total,
                successful_keywords |-> statistics.successful,
                failed_keywords |-> statistics.failed,
                keyword_results |-> keyword_results,
                summary |-> summary,
                success_rate |-> exec_res.success_rate]
       IN shared' = [shared EXCEPT !.research_findings = research_findings]
    /\ findings_writes' = findings_writes + 1
    /\ flow_result' = "research_complete"
    /\ rpc' = "node_posted"
    /\ UNCHANGED <<entry, subflows_and_data, task, execution_results, prep_res,
                   exec_res, run_result,
                   flow_exception>>
    /\ UNCHANGED tvars

\* ---- TracedResearchFlow.post_async: returns exec_res, which for a flow is
\* the action its last node returned ----
flow_post_async ==
    /\ rpc = "node_posted"
    /\ rpc' = "flow_done"
    /\ UNCHANGED <<entry, shared, subflows_and_data, task, execution_results,
                   prep_res, exec_res, flow_result, run_result, findings_writes,
                   flow_exception>>
    /\ UNCHANGED tvars

\* ---- ResearchFlow.run_async, after the await of self.flow.run_async ----
RunSucceeded_needs_success(result, research_findings) ==
    /\ TruthyStr(result)
    /\ TruthyDict(research_findings)
    /\ research_findings.successful_keywords > 0

RunSucceeded(result, research_findings) ==
    TruthyStr(result) /\ TruthyDict(research_findings)

run_async_finish ==
    /\ entry = "flow"
    /\ rpc = "flow_done"
    /\ run_result' = RunSucceeded(flow_result, shared.research_findings)
    /\ rpc' = "returned"
    /\ UNCHANGED <<entry, shared, subflows_and_data, task, execution_results,
                   prep_res, exec_res, flow_result, findings_writes,
                   flow_exception>>
    /\ UNCHANGED tvars

\* ---- ResearchFlow.run_async, the except arm (lines 251-254): an Exception
\* that left self.flow.run_async is recorded and the run returns False ----
run_async_except ==
    /\ entry = "flow"
    /\ rpc = "flow_raised"
    /\ shared' = [shared EXCEPT !.research_error = flow_exception]
    /\ run_result' = FALSE
    /\ rpc' = "returned"
    /\ UNCHANGED <<entry, subflows_and_data, task, execution_results,
                   prep_res, exec_res, flow_result, findings_writes,
                   flow_exception>>
    /\ UNCHANGED tvars

ResearchNext ==
    \/ run_async_validate
    \/ flow_run_async_raises
    \/ run_async_except
    \/ flow_prep_async
    \/ CRN_prep_async
    \/ CRN_exec_async_launch
    \/ \E i \in 1..Len(task) : subflow_run_async(i)
    \/ CRN_exec_async_collect
    \/ CRN_post_async
    \/ flow_post_async
    \/ run_async_finish


-----------------------------------------------------------------------------
\* ---- properties of the research flow ----

Findings == shared.research_findings
FindingsWritten == Findings # NoDict
InputKeywords == shared.research_keywords
AllTasksDone == /\ Len(task) = Len(InputKeywords)
                /\ \A i \in 1..Len(task) : task[i].state = "done"

\* How often keyword k occurs in a sequence of keywords / of keyword results.
CountIn(kws, k) == Cardinality({i \in 1..Len(kws) : kws[i] = k})
CountResults(krs, k) == Cardinality({i \in 1..Len(krs) : krs[i].keyword = k})

\* C1: once research_findings is written for a batch of N keywords, it holds
\* exactly N keyword_results, as many for each keyword as the input lists it
\* (exactly one when the keywords are distinct), and successful_keywords +
\* failed_keywords = total_keywords = N, whatever sub-pipelines returned or raised.
C1_OneResultPerKeyword ==
    FindingsWritten =>
        LET n == Len(InputKeywords)
            krs == Findings.keyword_results
        IN /\ Len(krs) = n
           /\ \A k \in KeywordPool : CountResults(krs, k) = CountIn(InputKeywords, k)
           /\ Findings.total_keywords = n
           /\ Findings.successful_keywords + Findings.failed_keywords = n
           /\ Findings.successful_keywords =
                 Cardinality({i \in 1..Len(krs) : krs[i].success})
           /\ Findings.failed_keywords =
                 Cardinality({i \in 1..Len(krs) : ~krs[i].success})

C1_Witness ==
    /\ FindingsWritten
    /\ Len(InputKeywords) = 3
    /\ \A i, j \in 1..3 : i # j => InputKeywords[i] # InputKeywords[j]
    /\ task[1].raised /\ ~task[2].raised /\ task[3].raised

\* C2: fault isolation. Once research_findings is written, every keyword whose
\* sub-pipeline returned has an entry with success = TRUE and the result its own
\* sub-pipeline left in its own input record ({} if none), whatever its siblings
\* did and in whatever order they finished; every keyword whose sub-pipeline
\* raised has an entry with success = FALSE and the error string; and every
\* sub-pipeline has run to its own end (none was cancelled).
C2_FaultIsolation ==
    FindingsWritten =>
        /\ AllTasksDone
        /\ \A j \in 1..Len(task) :
              LET own == subflows_and_data[j].data
                  expected ==
                      IF task[j].raised
                      THEN [keyword |-> InputKeywords[j], success |-> FALSE,
                            error |-> task[j].error]
                      ELSE [keyword |-> InputKeywords[j], success |-> TRUE,
                            result |-> IF own.keyword_result = Missing
                                       THEN EmptyDict ELSE own.keyword_result]
              IN \E p \in 1..Len(Findings.keyword_results) :
                    Findings.keyword_results[p] = expected

C2_Witness ==
    /\ FindingsWritten
    /\ Len(task) >= 2
    /\ task[1].raised
    /\ ~task[2].raised
    /\ subflows_and_data[2].data.keyword_result \in ResultPool
    /\ subflows_and_data[1].data.keyword_result = Missing
    /\ InputKeywords[1] # InputKeywords[2]

\* The input positions whose sub-pipeline raised (flag TRUE) or returned (FALSE),
\* in input order, from position i on.
RECURSIVE InputWhere(_, _)
InputWhere(flag, i) ==
    IF i > Len(task) THEN <<>>
    ELSE IF task[i].raised = flag THEN <<InputKeywords[i]>> \o InputWhere(flag, i + 1)
         ELSE InputWhere(flag, i + 1)

\* C3 as claimed: keyword_results lists the results in the order of the input
\* keywords.
C3_InputOrder_Original ==
    FindingsWritten =>
        /\ Len(Findings.keyword_results) = Len(InputKeywords)
        /\ \A i \in 1..Len(InputKeywords) :
              Findings.keyword_results[i].keyword = InputKeywords[i]

\* C3 (amended): keyword_results lists every successful result first, in the
\* order of the input keywords, followed by every failed result, in the order
\* of the input keywords; so it is in input order exactly when no failing
\* keyword precedes a succeeding one.
C3_PartitionedInputOrder ==
    FindingsWritten =>
        LET krs == Findings.keyword_results
            ok == InputWhere(FALSE, 1)
            bad == InputWhere(TRUE, 1)
        IN /\ Len(krs) = Len(ok) + Len(bad)
           /\ \A p \in 1..Len(ok) : krs[p].success /\ krs[p].keyword = ok[p]
           /\ \A p \in 1..Len(bad) :
                 /\ ~krs[Len(ok) + p].success
                 /\ krs[Len(ok) + p].keyword = bad[p]
           /\ ((\A i, j \in 1..Len(task) : i < j => ~(task[i].raised /\ ~task[j].raised))
                  => \A i \in 1..Len(krs) : krs[i].keyword = InputKeywords[i])

C3_Witness ==
    /\ FindingsWritten
    /\ Len(task) = 3
    /\ task[1].raised /\ ~task[2].raised /\ ~task[3].raised
    /\ InputKeywords = <<"cache", "auth", "billing">>

\* C4: success_rate is successful/total when total > 0 and exactly 0 when
\* total = 0, and always lies in [0, 1].
C4_SuccessRate ==
    exec_res # NoDict =>
        LET st == exec_res.statistics
            r == exec_res.success_rate
        IN /\ r.den > 0
           /\ st.total > 0 => r.num * st.total = st.successful * r.den
           /\ st.total = 0 => r = Zero
           /\ 0 <= r.num /\ r.num <= r.den
           /\ FindingsWritten => Findings.success_rate = r

C4_Witness ==
    /\ FindingsWritten
    /\ Findings.total_keywords = 3
    /\ Findings.successful_keywords = 2
    /\ Findings.success_rate = [num |-> 2, den |-> 3]

\* C5: ResearchFlow.run_async with an empty keywords list or an empty focus
\* areas list creates and launches no sub-pipeline and writes no
\* research_findings, and returns False with the error recorded in
\* research_error.
C5_ValidationRejects ==
    (entry = "flow" /\ (InputKeywords = <<>> \/ shared.focus_areas = <<>>)) =>
        /\ rpc \in {"start", "returned"}
        /\ subflows_and_data = <<>>
        /\ task = <<>>
        /\ ~FindingsWritten
        /\ findings_writes = 0
        /\ rpc = "returned" =>
              /\ run_result = FALSE
              /\ shared.research_error =
                    IF InputKeywords = <<>> THEN MissingKeywordsError
                    ELSE MissingFocusError

C5_Witness ==
    /\ entry = "flow"
    /\ rpc = "returned"
    /\ InputKeywords # <<>>
    /\ shared.focus_areas = <<>>
    /\ shared.research_error = MissingFocusError

\* C6: a valid batch in which every sub-pipeline raised and no exception left
\* the flow (the factory and the flow engine did not raise), once run_async
\* has returned: every sub-pipeline was launched, research_findings is written with successful_keywords = 0 and
\* success_rate = 0, the node emitted research_complete, and run_async
\* returned True.
C6_AllFailedStillSucceeds ==
    (/\ entry = "flow"
     /\ rpc = "returned"
     /\ InputKeywords # <<>>
     /\ shared.focus_areas # <<>>
     /\ flow_exception = None
     /\ \A i \in 1..Len(task) : task[i].raised) =>
        /\ Len(task) = Len(InputKeywords)
        /\ FindingsWritten
        /\ Findings.successful_keywords = 0
        /\ Findings.failed_keywords = Len(InputKeywords)
        /\ Findings.success_rate = Zero
        /\ flow_result = "research_complete"
        /\ run_result = TRUE

C6_Witness ==
    /\ entry = "flow"
    /\ rpc = "returned"
    /\ Len(InputKeywords) = 2
    /\ Len(task) = 2
    /\ \A i \in 1..Len(task) : task[i].raised
    /\ run_result = TRUE

\* C7: research_findings is written at most once, exactly once by the time
\* the node has finished, only by post_async (never by a step of a
\* sub-pipeline), and only when every launched sub-pipeline is done; exec_async
\* goes on to aggregation only when every sub-pipeline is done.
C7_SingleWriteAfterJoin ==
    /\ [](/\ findings_writes <= 1
          /\ FindingsWritten <=> findings_writes = 1
          /\ rpc \in {"node_posted", "flow_done"} => findings_writes = 1
          /\ rpc \in {"node_executed", "node_posted", "flow_done"} => AllTasksDone
          /\ findings_writes = 1 => AllTasksDone)
    /\ [][(shared'.research_findings # shared.research_findings
             \/ findings_writes' # findings_writes)
          => /\ rpc = "node_executed" /\ rpc' = "node_posted"
             /\ AllTasksDone
             /\ task' = task
             /\ findings_writes' = findings_writes + 1]_vars

C7_Witness ==
    /\ findings_writes = 1
    /\ Len(task) = 3
    /\ rpc = "node_posted"

\* C18: while the sub-pipelines run, a step of one keyword's sub-pipeline
\* changes nothing in the input record of any other keyword: what a
\* sub-pipeline does to its own input record, its focus areas included, is
\* not observable through another keyword's input record.
C18_InputRecordsIsolated ==
    [][(rpc = "gathering" /\ rpc' = "gathering") =>
          \A j \in 1..Len(task) :
             task'[j] = task[j] =>
                subflows_and_data'[j].data = subflows_and_data[j].data]_vars

\* The positions, in input order, of the keywords whose sub-pipeline run
\* returned, and of those whose run raised.
ReturnedPositions ==
    SelectSeq([j \in 1..Len(task) |-> j], LAMBDA j : ~task[j].raised)
RaisedPositions ==
    SelectSeq([j \in 1..Len(task) |-> j], LAMBDA j : task[j].raised)
Classified == execution_results # NoDict

\* C22: once exec_async has classified the runs, the successful results are
\* exactly the keywords whose sub-pipeline run did not raise, each with what
\* its sub-pipeline left under keyword_result in its own input record, or the
\* empty mapping when it left nothing; the failed results are exactly the
\* keywords whose run raised, whether or not it left a result.
C22_SuccessIffNotRaised ==
    Classified =>
        LET successful == execution_results.successful_results
            failed == execution_results.failed_results
        IN /\ Len(successful) = Len(ReturnedPositions)
           /\ \A p \in 1..Len(ReturnedPositions) :
                 LET own == subflows_and_data[ReturnedPositions[p]].data
                 IN /\ p <= Len(successful)
                    /\ successful[p].keyword = own.current_keyword
                    /\ successful[p].result =
                          IF own.keyword_result = Missing THEN EmptyDict
                          ELSE own.keyword_result
           /\ Len(failed) = Len(RaisedPositions)
           /\ \A p \in 1..Len(RaisedPositions) :
                 /\ p <= Len(failed)
                 /\ failed[p].keyword =
                       subflows_and_data[RaisedPositions[p]].data.current_keyword
           /\ exec_res.statistics.successful = Len(ReturnedPositions)
           /\ exec_res.statistics.failed = Len(RaisedPositions)

C22_Witness ==
    /\ Classified
    /\ Len(task) = 2
    /\ ~task[1].raised
    /\ subflows_and_data[1].data.keyword_result = Missing
    /\ task[2].raised
    /\ subflows_and_data[2].data.keyword_result \in ResultPool
    /\ execution_results.successful_results =
          <<[keyword |-> subflows_and_data[1].data.current_keyword,
             result |-> EmptyDict]>>

-----------------------------------------------------------------------------
\* ---- ReAct orchestrator node ----

\* ErrorMessages.* of constants.py, as opaque texts.
REACT_PREP_FAILED == "REACT_PREP_FAILED"
REACT_EXEC_FAILED == "REACT_EXEC_FAILED"
FUNCTION_CALLING_FAILED == "FUNCTION_CALLING_FAILED"
GENERIC_ERROR == "GENERIC_ERROR"

\* str(e) of an exception raised by a collaborator, and f"{prefix}: {str(e)}".
Detail(text) == [text |-> text]
ErrorText(prefix, detail) == [prefix |-> prefix, detail |-> detail]

\* Exact fractions for the response-time average.
Frac(n, d) == LET g == Gcd(n, d) IN [num |-> n \div g, den |-> d \div g]
FracTimesInt(f, k) == Frac(f.num * k, f.den)
FracPlusInt(f, k) == Frac(f.num + k * f.den, f.den)
\* Python's `/` raises ZeroDivisionError when the divisor is 0.
ZeroDivisionError == [exception |-> "float division by zero"]
FracOverInt(f, k) == IF k = 0 THEN ZeroDivisionError ELSE Frac(f.num, f.den * k)

\* The response times (time.time() differences) a request may take.
SamplePool == {1, 2}
\* The "rich" environment varies the reply and its tool calls; its requests
\* all take the same time.
ResponseTimes(e) == IF e = "rich" THEN {1} ELSE SamplePool

\* The Tool Outcomes the tool executor may return for one invocation; in the
\* "plain" environment every invocation succeeds.
PlainToolOutcomePool ==
    {[tool_name |-> "search", success |-> TRUE, result |-> [success |-> TRUE]]}
ToolOutcomePool ==
    PlainToolOutcomePool \cup
    {[tool_name |-> "design", success |-> FALSE, result |-> [success |-> FALSE]]}

\* The reply texts of the backend; marker tells whether the text holds the
\* inline "<tool_call>" marker, and whether the marked block parses.
PlainContentPool ==
    {[text |-> "", marker |-> "none"],
     [text |-> "reply", marker |-> "none"]}
MarkedContentPool ==
    {[text |-> "reply", marker |-> "valid"],
     [text |-> "reply", marker |-> "malformed"],
     [text |-> "", marker |-> "valid"],
     [text |-> "", marker |-> "malformed"]}

\* Truthiness of a reply text: the string is non-empty when it holds text or a
\* marked block.
TruthyContent(c) == c.text # "" \/ c.marker # "none"

InitialShared(cb) ==
    [stream_callback |-> cb,
     react_cycle_count |-> 0,
     react_error |-> NoDict,
     react_post_error |-> NoDict,
     tool_execution_history |-> <<>>,
     applied_tool_results |-> <<>>]

InitialStats ==
    [total_requests |-> 0,
     successful_requests |-> 0,
     failed_requests |-> 0,
     average_response_time |-> Zero,
     total_tool_calls |-> 0]

\* History of the current turn, before the first turn: the turn's number,
\* whether its preparation failed, what the backend did and (reply) what it
\* answered, the counter, stats, shared dict and unified context the turn
\* found, whether post_async's try block threw, whether the stats update of
\* the turn's exec_async raised; and, over the session, how many
\* turns had a fault injected into post_async, and the sum and the number of
\* the response times that entered the average since construction or the
\* last reset.
InitialTurn ==
    [n |-> 0, prep_failed |-> FALSE, backend |-> "none", reply |-> NoDict,
     cycle_before |-> 0, stats_before |-> InitialStats,
     shared_before |-> NoDict, context_before |-> NoDict,
     faults_seen |-> 0, post_threw |-> FALSE, sample_sum |-> 0,
     sample_count |-> 0, update_raised |-> FALSE]

NoConcurrentCall == [state |-> "idle", started |-> 0]

\* The number of turns a session runs, by its environment.
TurnBound(e) ==
    IF e = "rich" THEN MaxRichTurns
    ELSE IF e = "shared" THEN MaxSharedTurns
    ELSE MaxTurns

\* ---- prep_async: the state manager builds the Turn Input, or raises ----
React_prep_async ==
    /\ tpc = "awaiting_turn"
    /\ turn.n < TurnBound(env)
    /\ \E raises \in BOOLEAN :
          /\ prep_result' =
                IF raises
                THEN [error |-> ErrorText(REACT_PREP_FAILED, Detail("state error"))]
                ELSE [success |-> TRUE,
                      user_message |-> "user message",
                      shared_data |-> [stream_callback |-> react_shared.stream_callback]]
          /\ turn' = [turn EXCEPT !.n = @ + 1,
                                  !.prep_failed = raises,
                                  !.backend = "none",
                                  !.reply = NoDict,
                                  !.post_threw = FALSE,
                                  !.update_raised = FALSE,
                                  !.cycle_before = react_shared.react_cycle_count,
                                  !.stats_before = performance_stats,
                                  !.shared_before = react_shared,
                                  !.context_before = context]
    /\ tpc' = "deciding"
    /\ UNCHANGED <<react_shared, performance_stats, context, step_outcome,
                   transition, concurrent_call, env>>
    /\ UNCHANGED rvars

\* ---- _execute_with_function_calling ----

\* What the decision backend and the tool executor do in one call: the backend
\* raises, or answers with a reply text and structured invocations, whose
\* execution gives `structured`; `inline` is what executing the invocations
\* parsed from a well-formed marked reply text gives (a malformed block parses
\* to no invocation).
BackendBehaviours(contents, outcomes, max_calls) ==
    {[raises |-> TRUE]}
    \cup {[raises |-> FALSE, content |-> c, structured |-> st, inline |-> il] :
            c \in contents,
            st \in SeqsUpTo(outcomes, max_calls),
            il \in {<<t>> : t \in outcomes}}

\* The behaviours the turns of a session draw from, by its environment.
PlainBehaviours ==
    BackendBehaviours(PlainContentPool, PlainToolOutcomePool, MaxToolCalls)
RichBehaviours ==
    BackendBehaviours(PlainContentPool \cup MarkedContentPool, ToolOutcomePool,
                      MaxRichToolCalls)
Behaviours(e) == IF e = "rich" THEN RichBehaviours ELSE PlainBehaviours

\* _build_simple_reasoning
ToolNames(tool_calls) == [i \in 1..Len(tool_calls) |-> tool_calls[i].tool_name]
_build_simple_reasoning(tool_calls, assistant_message) ==
    IF tool_calls = <<>> THEN [executed |-> 0]
    ELSE [executed |-> Len(tool_calls),
          successful |-> ToolNames(SelectSeq(tool_calls, LAMBDA tc : tc.success)),
          failed |-> ToolNames(SelectSeq(tool_calls, LAMBDA tc : ~tc.success))]

FunctionCallingError(detail) ==
    [error |-> ErrorText(FUNCTION_CALLING_FAILED, detail),
     user_message |-> [text |-> GENERIC_ERROR, marker |-> "none"],
     decision_success |-> FALSE]

ExecuteWithFunctionCalling(backend, on_raise) ==
    IF backend.raises
    THEN on_raise
    ELSE LET content == backend.content
             custom_tool_calls == IF content.marker = "valid" THEN backend.inline ELSE <<>>
             inline_taken == /\ backend.structured = <<>>
                             /\ TruthyContent(content)
                             /\ content.marker # "none"
                             /\ custom_tool_calls # <<>>
             tool_calls == IF backend.structured # <<>> THEN backend.structured
                           ELSE IF inline_taken THEN custom_tool_calls
                           ELSE <<>>
             assistant_message == IF inline_taken
                                  THEN [text |-> content.text, marker |-> "none"]
                                  ELSE content
         IN [user_message |-> assistant_message,
             tool_calls |-> tool_calls,
             reasoning |-> _build_simple_reasoning(tool_calls, assistant_message),
             decision_success |-> TRUE,
             execution_mode |-> IF Len(tool_calls) > 1 THEN "parallel" ELSE "single"]

_execute_with_function_calling_no_error_key(backend) ==
    ExecuteWithFunctionCalling(backend,
        [user_message |-> [text |-> GENERIC_ERROR, marker |-> "none"],
         decision_success |-> FALSE])

_execute_with_function_calling(backend) ==
    ExecuteWithFunctionCalling(backend, FunctionCallingError(Detail("backend error")))

\* _update_average_response_time, reading total_requests from the stats: the
\* stats it leaves, and whether the division raised (then the average is not
\* assigned).
_update_average_response_time(stats, response_time) ==
    LET total_requests == stats.total_requests
        current_avg == stats.average_response_time
        new_avg == FracOverInt(FracPlusInt(FracTimesInt(current_avg, total_requests - 1),
                                           response_time),
                               total_requests)
    IN IF new_avg = ZeroDivisionError
       THEN [raised |-> TRUE, stats |-> stats]
       ELSE [raised |-> FALSE,
             stats |-> [stats EXCEPT !.average_response_time = new_avg]]

\* The except branch of exec_async.
ExecFailed_swallows_detail(stats, detail) ==
    [stats |-> [stats EXCEPT !.failed_requests = @ + 1],
     recorded |-> FALSE,
     result |-> [error |-> ErrorText(REACT_EXEC_FAILED, Detail("")),
                 user_message |-> [text |-> GENERIC_ERROR, marker |-> "none"],
                 decision_success |-> FALSE]]

ExecFailed(stats, detail) ==
    [stats |-> [stats EXCEPT !.failed_requests = @ + 1],
     recorded |-> FALSE,
     result |-> [error |-> ErrorText(REACT_EXEC_FAILED, detail),
                 user_message |-> [text |-> GENERIC_ERROR, marker |-> "none"],
                 decision_success |-> FALSE]]

\* The end of the try branch of exec_async (lines 109-116), given the result:
\* the request is counted as successful, then its tool calls, then the average
\* is updated; when that raises, the except branch runs on the stats as they
\* are by then.  `recorded` tells whether a latency sample entered the average.
ExecSucceeded(stats, result, response_time) ==
    LET n_calls == IF "tool_calls" \in DOMAIN result THEN Len(result.tool_calls) ELSE 0
        counted == [stats EXCEPT !.successful_requests = @ + 1,
                                 !.total_tool_calls = @ + n_calls]
        updated == _update_average_response_time(counted, response_time)
    IN IF updated.raised
       THEN ExecFailed(updated.stats, Detail(ZeroDivisionError.exception))
       ELSE [stats |-> updated.stats, recorded |-> TRUE, result |-> result]

\* ---- exec_async ----
\* Line 82, outside the try block.
ExecStarted(stats) == [stats EXCEPT !.total_requests = @ + 1]

\* Whether exec_async fails before it reaches its await (lines 85-95): the
\* preparation result carries an error, or the message builder raises.
FailsBeforeAwait(prep, build_raises) == "error" \in DOMAIN prep \/ build_raises

\* What exec_async returns and leaves in the stats from line 84 on, given the
\* stats as they are when its bookkeeping runs (`started`: as line 82 left
\* them, unless they were changed while exec_async was suspended) and what
\* its collaborators do in this call: the message builder raises or not, the
\* backend behaves as `backend`, a request takes response_time, and, with a
\* stream callback, the stream handler either hands a backend failure on as an
\* exception or reports it as a Step Outcome of the non-streaming shape.
ExecOutcome(started, prep, build_raises, backend, stream_propagates, response_time) ==
    LET reached_backend == ~FailsBeforeAwait(prep, build_raises)
        out == IF "error" \in DOMAIN prep
               THEN ExecFailed(started, prep.error)
               ELSE IF build_raises
               THEN ExecFailed(started, Detail("message builder error"))
               ELSE IF prep.shared_data.stream_callback
               THEN IF backend.raises /\ stream_propagates
                    THEN ExecFailed(started, Detail("backend error"))
                    ELSE ExecSucceeded(started, _execute_with_function_calling(backend),
                                       response_time)
               ELSE ExecSucceeded(started, _execute_with_function_calling(backend),
                                  response_time)
        handed_on == /\ reached_backend
                     /\ prep.shared_data.stream_callback
                     /\ backend.raises /\ stream_propagates
    IN [stats |-> out.stats,
        result |-> out.result,
        update_raised |-> reached_backend /\ ~handed_on /\ ~out.recorded,
        backend |-> IF ~reached_backend THEN "not called"
                    ELSE IF backend.raises THEN "raised" ELSE "returned",
        reply |-> IF reached_backend /\ ~backend.raises
                  THEN [marker |-> backend.content.marker,
                        text |-> backend.content.text,
                        structured |-> backend.structured]
                  ELSE NoDict,
        recorded |-> out.recorded,
        sample |-> IF out.recorded THEN response_time ELSE 0]

ToolCallsOf(result) ==
    IF "tool_calls" \in DOMAIN result THEN result.tool_calls ELSE <<>>

\* A backend that is never called.
NotCalled == [raises |-> TRUE]

\* exec_async up to its first await (lines 81-107): the request is counted;
\* when the preparation failed or the message builder raises, the except
\* branch runs and exec_async returns without having been suspended; else it
\* is suspended awaiting the backend.
React_exec_async_start ==
    /\ tpc = "deciding"
    /\ \E build_raises \in BOOLEAN :
          LET started == ExecStarted(performance_stats)
              o == ExecOutcome(started, prep_result, build_raises, NotCalled, FALSE, 1)
          IN /\ build_raises => ~("error" \in DOMAIN prep_result)
             /\ IF FailsBeforeAwait(prep_result, build_raises)
                THEN /\ performance_stats' = o.stats
                     /\ step_outcome' = o.result
                     /\ turn' = [turn EXCEPT !.backend = o.backend, !.reply = o.reply]
                     /\ tpc' = "applying"
                ELSE /\ performance_stats' = started
                     /\ turn' = [turn EXCEPT !.backend = "awaited"]
                     /\ tpc' = "calling"
                     /\ UNCHANGED step_outcome
    /\ UNCHANGED <<react_shared, context, prep_result, transition,
                   concurrent_call, env>>
    /\ UNCHANGED rvars

\* exec_async from the return of its await on (lines 102-126), on the stats as
\* they are by then.
React_exec_async_resume ==
    /\ tpc = "calling"
    /\ \E o \in {ExecOutcome(performance_stats, prep_result, FALSE, backend,
                             stream_propagates, response_time) :
                    backend \in Behaviours(env),
                    stream_propagates \in BOOLEAN,
                    response_time \in ResponseTimes(env)} :
          /\ performance_stats' = o.stats
          /\ step_outcome' = o.result
          /\ turn' = [turn EXCEPT !.backend = o.backend,
                                  !.reply = o.reply,
                                  !.update_raised = o.update_raised,
                                  !.sample_sum = @ + o.sample,
                                  !.sample_count = IF o.recorded THEN @ + 1 ELSE @]
    /\ tpc' = "applying"
    /\ UNCHANGED <<react_shared, context, prep_result, transition,
                   concurrent_call, env>>
    /\ UNCHANGED rvars

\* The task running the turn is cancelled while exec_async is suspended:
\* asyncio.CancelledError is raised at the await; it is not an Exception, so
\* the except branch of line 118 does not run and it leaves exec_async.
React_exec_async_cancelled ==
    /\ tpc = "calling"
    /\ turn' = [turn EXCEPT !.backend = "cancelled"]
    /\ tpc' = "cancelled"
    /\ UNCHANGED <<react_shared, performance_stats, context, prep_result,
                   step_outcome, transition, concurrent_call, env>>
    /\ UNCHANGED rvars

\* ---- another call of exec_async on the same node, overlapping with the
\* session's: it begins while the session's call is suspended, and ends while
\* the session's task is suspended or between two of its turns.  Its Step
\* Outcome goes to its own caller; here only what it does to the node's stats
\* shows ----
concurrent_exec_async_start ==
    /\ env = "shared"
    /\ tpc = "calling"
    /\ concurrent_call.state = "idle"
    /\ concurrent_call.started < MaxConcurrentCalls
    /\ performance_stats' = ExecStarted(performance_stats)
    /\ concurrent_call' = [state |-> "calling", started |-> concurrent_call.started + 1]
    /\ UNCHANGED <<tpc, react_shared, context, prep_result, step_outcome, transition,
                   turn, env>>
    /\ UNCHANGED rvars

ConcurrentReply ==
    [raises |-> FALSE, content |-> [text |-> "reply", marker |-> "none"],
     structured |-> <<>>, inline |-> <<>>]

concurrent_exec_async_resume ==
    /\ tpc \in {"calling", "awaiting_turn"}
    /\ concurrent_call.state = "calling"
    /\ \E fails \in BOOLEAN, response_time \in SamplePool :
          LET out == IF fails
                     THEN ExecFailed(performance_stats, Detail("backend error"))
                     ELSE ExecSucceeded(performance_stats,
                                        _execute_with_function_calling(ConcurrentReply),
                                        response_time)
          IN /\ fails => response_time = 1
             /\ performance_stats' = out.stats
             /\ turn' = [turn EXCEPT
                            !.sample_sum = IF out.recorded THEN @ + response_time ELSE @,
                            !.sample_count = IF out.recorded THEN @ + 1 ELSE @]
    /\ concurrent_call' = [concurrent_call EXCEPT !.state = "idle"]
    /\ UNCHANGED <<tpc, react_shared, context, prep_result, step_outcome, transition,
                   env>>
    /\ UNCHANGED rvars

\* ---- post_async ----

\* StateManager.increment_react_cycle
increment_react_cycle(sh) == [sh EXCEPT !.react_cycle_count = @ + 1]

\* StateManager.record_tool_execution: appends to the flat history in shared.
record_tool_execution(sh, tool_name, tool_result) ==
    [sh EXCEPT !.tool_execution_history =
        Append(@, [tool_name |-> tool_name, result |-> tool_result])]

\* StateManager.update_shared_state_with_tool_result
update_shared_state_with_tool_result(sh, tool_name, tool_result) ==
    [sh EXCEPT !.applied_tool_results = Append(@, tool_name)]

\* Lines 153-159: the assistant message to record.
SuccessfulTools(tool_calls) ==
    ToolNames(SelectSeq(tool_calls, LAMBDA tc : tc.success))

FallbackMessage == "tried some operations but ran into problems"
AssistantMessage_names_all(assistant_message, tool_calls) ==
    IF ~TruthyContent(assistant_message) /\ tool_calls # <<>>
    THEN [summary_of |-> ToolNames(tool_calls)]
    ELSE assistant_message

AssistantMessage(assistant_message, tool_calls) ==
    IF ~TruthyContent(assistant_message) /\ tool_calls # <<>>
    THEN IF SuccessfulTools(tool_calls) # <<>>
         THEN [summary_of |-> SuccessfulTools(tool_calls)]
         ELSE [text |-> FallbackMessage, marker |-> "none"]
    ELSE assistant_message

\* Lines 147-171: what post_async adds to the unified context.
ContextAfter(ctx, assistant_message, tool_calls) ==
    IF TruthyContent(assistant_message) \/ tool_calls # <<>>
    THEN [messages |-> Append(ctx.messages,
                              [content |-> AssistantMessage(assistant_message, tool_calls),
                               tool_calls |-> tool_calls]),
          tool_executions |-> ctx.tool_executions
              \o SelectSeq(tool_calls, LAMBDA tc : tc.success)]
    ELSE ctx

\* Lines 173-191: the loop over tool_calls, folding each into shared.
RECURSIVE ApplyToolCalls_applies_all(_, _)
ApplyToolCalls_applies_all(sh, tool_calls) ==
    IF tool_calls = <<>> THEN sh
    ELSE LET tool_call == Head(tool_calls)
             tool_name == tool_call.tool_name
             tool_result == tool_call.result
             recorded == IF tool_name # "" /\ TruthyDict(tool_result)
                         THEN record_tool_execution(sh, tool_name, tool_result)
                         ELSE sh
             updated == IF tool_name # "" /\ TruthyDict(tool_result)
                        THEN update_shared_state_with_tool_result(recorded, tool_name,
                                                                  tool_result)
                        ELSE recorded
         IN ApplyToolCalls_applies_all(updated, Tail(tool_calls))

RECURSIVE ApplyToolCalls(_, _)
ApplyToolCalls(sh, tool_calls) ==
    IF tool_calls = <<>> THEN sh
    ELSE LET tool_call == Head(tool_calls)
             tool_name == tool_call.tool_name
             tool_result == tool_call.result
             recorded == IF tool_name # "" /\ TruthyDict(tool_result)
                         THEN record_tool_execution(sh, tool_name, tool_result)
                         ELSE sh
             updated == IF tool_name # "" /\ TruthyDict(tool_result) /\ tool_result.success
                        THEN update_shared_state_with_tool_result(recorded, tool_name,
                                                                  tool_result)
                        ELSE recorded
         IN ApplyToolCalls(updated, Tail(tool_calls))

\* The calls post_async makes in its loops: context.record_tool_execution
\* (line 165) for a tool call with success set, the state manager's
\* record_tool_execution (line 182) for one with a name and a non-empty result,
\* and update_shared_state_with_tool_result (line 188) for one whose result
\* also has success set.
ContextRecorded(tool_call) == tool_call.success
StateRecorded(tool_call) == tool_call.tool_name # "" /\ TruthyDict(tool_call.result)
StateUpdated(tool_call) == StateRecorded(tool_call) /\ tool_call.result.success

\* For every tool call, whether the loops call the collaborator of a site
\* for it.
CallsAt(site, tool_calls) ==
    [i \in 1..Len(tool_calls) |->
        IF site = "context_record" THEN ContextRecorded(tool_calls[i])
        ELSE IF site = "state_record" THEN StateRecorded(tool_calls[i])
        ELSE StateUpdated(tool_calls[i])]

\* The position of the tool call for which a loop makes its k-th call of a
\* collaborator, 0 when the loop makes fewer than k calls.
KthCall(called, k) ==
    LET at == {i \in 1..Len(called) :
                  /\ called[i]
                  /\ Cardinality({j \in 1..i : called[j]}) = k}
    IN IF at = {} THEN 0 ELSE CHOOSE i \in at : TRUE

\* Where a collaborator called inside the try block of post_async raises, if
\* the call is reached: nowhere; in increment_react_cycle (line 141); in
\* get_context or add_assistant_message (lines 151, 161); or at the call
\* number "at" of context.record_tool_execution (line 166), of the state
\* manager's record_tool_execution (line 183) or of
\* update_shared_state_with_tool_result (line 189).
NoPostFault == [site |-> "none", at |-> 1]
LoopSites == {"context_record", "state_record", "state_update"}
PostFaults ==
    {NoPostFault}
    \cup {[site |-> s, at |-> 1] : s \in {"increment", "context"}}
    \cup {[site |-> s, at |-> k] : s \in LoopSites, k \in 1..MaxRichToolCalls}

PostError_not_recorded(sh) == sh

\* The except branch of post_async: shared["react_post_error"] = str(e).
PostError(sh) == [sh EXCEPT !.react_post_error = Detail("post error")]

\* Whether the try block of post_async throws: the faulty collaborator is
\* called only when the Step Outcome carries no error, the unified context
\* only when there is a message or a tool call, and a collaborator of a loop
\* at its k-th call only when the loop makes that many calls.
PostThrows(fault, outcome) ==
    /\ ~("error" \in DOMAIN outcome)
    /\ \/ fault.site = "increment"
       \/ /\ fault.site = "context"
          /\ \/ ("user_message" \in DOMAIN outcome /\ TruthyContent(outcome.user_message))
             \/ ToolCallsOf(outcome) # <<>>
       \/ /\ fault.site = "context_record"
          /\ KthCall(CallsAt("context_record", ToolCallsOf(outcome)), fault.at) # 0
       \/ /\ fault.site = "state_record"
          /\ KthCall(CallsAt("state_record", ToolCallsOf(outcome)), fault.at) # 0
       \/ /\ fault.site = "state_update"
          /\ KthCall(CallsAt("state_update", ToolCallsOf(outcome)), fault.at) # 0

PostAsync_increment_first(fault) ==
    LET counted == increment_react_cycle(react_shared)
        assistant_message == IF "user_message" \in DOMAIN step_outcome
                             THEN step_outcome.user_message
                             ELSE [text |-> "", marker |-> "none"]
        tool_calls == IF "tool_calls" \in DOMAIN step_outcome
                      THEN step_outcome.tool_calls ELSE <<>>
    IN IF "error" \in DOMAIN step_outcome
       THEN /\ react_shared' = [counted EXCEPT !.react_error = step_outcome.error]
            /\ transition' = "error"
            /\ UNCHANGED context
       ELSE /\ react_shared' = ApplyToolCalls(counted, tool_calls)
            /\ context' = ContextAfter(context, assistant_message, tool_calls)
            /\ transition' = "wait_for_user"

PostAsync_error_unchecked(fault) ==
    LET counted == increment_react_cycle(react_shared)
        assistant_message == IF "user_message" \in DOMAIN step_outcome
                             THEN step_outcome.user_message
                             ELSE [text |-> "", marker |-> "none"]
        tool_calls == ToolCallsOf(step_outcome)
    IN IF fault.site # "none"
       THEN /\ react_shared' = PostError(react_shared)
            /\ transition' = "error"
            /\ UNCHANGED context
       ELSE /\ react_shared' = ApplyToolCalls(counted, tool_calls)
            /\ context' = ContextAfter(context, assistant_message, tool_calls)
            /\ transition' = "wait_for_user"

\* post_async, given where a collaborator raises. What the calls before the
\* raising one wrote stays written: the turn counter, the assistant message,
\* the tool executions of the context recorded so far, and the tool calls the
\* second loop has recorded and applied so far.
PostAsync(fault) ==
    IF "error" \in DOMAIN step_outcome
    THEN /\ react_shared' = [react_shared EXCEPT !.react_error = step_outcome.error]
         /\ transition' = "error"
         /\ UNCHANGED context
    ELSE IF fault.site = "increment"
    THEN /\ react_shared' = PostError(react_shared)
         /\ transition' = "error"
         /\ UNCHANGED context
    ELSE LET counted == increment_react_cycle(react_shared)
             assistant_message ==
                 IF "user_message" \in DOMAIN step_outcome
                 THEN step_outcome.user_message
                 ELSE [text |-> "", marker |-> "none"]
             tool_calls == ToolCallsOf(step_outcome)
             uses_context == TruthyContent(assistant_message) \/ tool_calls # <<>>
             recorded_all == ContextAfter(context, assistant_message, tool_calls)
             at_context == KthCall(CallsAt("context_record", tool_calls), fault.at)
             at_record == KthCall(CallsAt("state_record", tool_calls), fault.at)
             at_update == KthCall(CallsAt("state_update", tool_calls), fault.at)
         IN IF fault.site = "context" /\ uses_context
            THEN /\ react_shared' = PostError(counted)
                 /\ transition' = "error"
                 /\ UNCHANGED context
            ELSE IF fault.site = "context_record" /\ at_context # 0
            THEN /\ react_shared' = PostError(counted)
                 /\ context' =
                       [recorded_all EXCEPT !.tool_executions =
                           context.tool_executions
                              \o SelectSeq(SubSeq(tool_calls, 1, at_context - 1),
                                           ContextRecorded)]
                 /\ transition' = "error"
            ELSE IF fault.site = "state_record" /\ at_record # 0
            THEN /\ react_shared' =
                       PostError(ApplyToolCalls(counted,
                                                SubSeq(tool_calls, 1, at_record - 1)))
                 /\ context' = recorded_all
                 /\ transition' = "error"
            ELSE IF fault.site = "state_update" /\ at_update # 0
            THEN /\ react_shared' =
                       PostError(record_tool_execution(
                                    ApplyToolCalls(counted,
                                                   SubSeq(tool_calls, 1, at_update - 1)),
                                    tool_calls[at_update].tool_name,
                                    tool_calls[at_update].result))
                 /\ context' = recorded_all
                 /\ transition' = "error"
            ELSE /\ react_shared' = ApplyToolCalls(counted, tool_calls)
                 /\ context' = recorded_all
                 /\ transition' = "wait_for_user"

React_post_async ==
    /\ tpc = "applying"
    /\ \E fault \in PostFaults :
          /\ fault.site # "none"
                => (turn.faults_seen < MaxPostFaults /\ env # "shared")
          /\ turn' = [turn EXCEPT !.faults_seen =
                                     IF PostThrows(fault, step_outcome) THEN @ + 1 ELSE @,
                                  !.post_threw = PostThrows(fault, step_outcome)]
          /\ PostAsync(fault)
    /\ tpc' = "awaiting_turn"
    /\ UNCHANGED <<performance_stats, prep_result, step_outcome,
                   concurrent_call, env>>
    /\ UNCHANGED rvars

\* ---- reset_stats: a synchronous method of the node, called between two
\* turns or while exec_async is suspended at its await; the sessions of the
\* "rich" environment explore only the second, the others both ----
reset_stats ==
    /\ tpc \in {"awaiting_turn", "calling"}
    /\ env = "rich" => tpc = "calling"
    /\ performance_stats # InitialStats
    /\ performance_stats' = InitialStats
    /\ turn' = [turn EXCEPT !.sample_sum = 0, !.sample_count = 0]
    /\ UNCHANGED <<tpc, react_shared, context, prep_result, step_outcome, transition,
                   concurrent_call, env>>
    /\ UNCHANGED rvars

ReactNext ==
    \/ React_prep_async
    \/ React_exec_async_start
    \/ React_exec_async_resume
    \/ React_exec_async_cancelled
    \/ React_post_async
    \/ reset_stats

\* The steps of a session on a node that others call too.
SharedNext ==
    \/ React_prep_async
    \/ React_exec_async_start
    \/ React_exec_async_resume
    \/ React_exec_async_cancelled
    \/ React_post_async
    \/ reset_stats
    \/ concurrent_exec_async_start
    \/ concurrent_exec_async_resume

-----------------------------------------------------------------------------
\* ---- the specifications ----

\* A research run: any batch, started through either entry point; the
\* orchestrator node is as constructed and takes no step.
ResearchInit ==
    /\ entry \in {"flow", "node"}
    /\ rpc = "start"
    /\ \E kws \in SeqsUpTo(KeywordPool, MaxKeywords), fas \in FocusPool :
          shared = InitShared(kws, fas)
    /\ subflows_and_data = <<>>
    /\ task = <<>>
    /\ execution_results = NoDict
    /\ prep_res = NoDict
    /\ exec_res = NoDict
    /\ flow_result = None
    /\ run_result = None
    /\ findings_writes = 0
    /\ flow_exception = None
    /\ tpc = "awaiting_turn"
    /\ react_shared = InitialShared(FALSE)
    /\ performance_stats = InitialStats
    /\ context = [messages |-> <<>>, tool_executions |-> <<>>]
    /\ prep_result = NoDict
    /\ step_outcome = NoDict
    /\ transition = None
    /\ turn = InitialTurn
    /\ concurrent_call = NoConcurrentCall
    /\ env = "plain"

\* A session of the orchestrator node, with or without a stream callback; the
\* research flow takes no step.
ReactInit ==
    /\ tpc = "awaiting_turn"
    /\ \E cb \in BOOLEAN : react_shared = InitialShared(cb)
    /\ performance_stats = InitialStats
    /\ context = [messages |-> <<>>, tool_executions |-> <<>>]
    /\ prep_result = NoDict
    /\ step_outcome = NoDict
    /\ transition = None
    /\ turn = InitialTurn
    /\ concurrent_call = NoConcurrentCall
    /\ env = "plain"
    /\ entry = "node"
    /\ rpc = "idle"
    /\ shared = InitShared(<<>>, <<>>)
    /\ subflows_and_data = <<>>
    /\ task = <<>>
    /\ execution_results = NoDict
    /\ prep_res = NoDict
    /\ exec_res = NoDict
    /\ flow_result = None
    /\ run_result = None
    /\ findings_writes = 0
    /\ flow_exception = None

SpecResearch == ResearchInit /\ [][ResearchNext]_vars

SpecReact == ReactInit /\ [][ReactNext]_vars

\* A short session of the orchestrator node whose backend may answer with
\* several invocations and with inline-marked reply texts.
ToolsInit ==
    /\ tpc = "awaiting_turn"
    /\ \E cb \in BOOLEAN : react_shared = InitialShared(cb)
    /\ performance_stats = InitialStats
    /\ context = [messages |-> <<>>, tool_executions |-> <<>>]
    /\ prep_result = NoDict
    /\ step_outcome = NoDict
    /\ transition = None
    /\ turn = InitialTurn
    /\ concurrent_call = NoConcurrentCall
    /\ env = "rich"
    /\ entry = "node"
    /\ rpc = "idle"
    /\ shared = InitShared(<<>>, <<>>)
    /\ subflows_and_data = <<>>
    /\ task = <<>>
    /\ execution_results = NoDict
    /\ prep_res = NoDict
    /\ exec_res = NoDict
    /\ flow_result = None
    /\ run_result = None
    /\ findings_writes = 0
    /\ flow_exception = None

SpecTools == ToolsInit /\ [][ReactNext]_vars

\* A session of the orchestrator node on a node whose exec_async others call
\* at the same time; no collaborator of post_async raises.
SharedInit ==
    /\ tpc = "awaiting_turn"
    /\ \E cb \in BOOLEAN : react_shared = InitialShared(cb)
    /\ performance_stats = InitialStats
    /\ context = [messages |-> <<>>, tool_executions |-> <<>>]
    /\ prep_result = NoDict
    /\ step_outcome = NoDict
    /\ transition = None
    /\ turn = InitialTurn
    /\ concurrent_call = NoConcurrentCall
    /\ env = "shared"
    /\ entry = "node"
    /\ rpc = "idle"
    /\ shared = InitShared(<<>>, <<>>)
    /\ subflows_and_data = <<>>
    /\ task = <<>>
    /\ execution_results = NoDict
    /\ prep_res = NoDict
    /\ exec_res = NoDict
    /\ flow_result = None
    /\ run_result = None
    /\ findings_writes = 0
    /\ flow_exception = None

SpecShared == SharedInit /\ [][SharedNext]_vars

-----------------------------------------------------------------------------
\* ---- properties of the ReAct orchestrator node ----

TurnCounter == react_shared.react_cycle_count
TurnOver == tpc = "awaiting_turn" /\ turn.n > 0
NonStreaming == ~react_shared.stream_callback

\* C8: the turn counter never decreases; within a turn only post_async changes
\* it; a completed turn (one that ends with wait_for_user) leaves it exactly 1
\* higher than the turn found it, and a turn whose preparation failed leaves
\* it as the turn found it.
C8_TurnCounter ==
    /\ [](/\ TurnCounter >= turn.cycle_before
          /\ tpc # "awaiting_turn" => TurnCounter = turn.cycle_before
          /\ (TurnOver /\ transition = "wait_for_user") =>
                TurnCounter = turn.cycle_before + 1
          /\ (TurnOver /\ turn.prep_failed) =>
                TurnCounter = turn.cycle_before /\ transition = "error")
    /\ [][/\ react_shared'.react_cycle_count >= TurnCounter
          /\ react_shared'.react_cycle_count <= TurnCounter + 1]_vars

C8_Witness ==
    /\ TurnOver
    /\ turn.n = 2
    /\ turn.prep_failed
    /\ turn.cycle_before = 1
    /\ TurnCounter = 1
    /\ transition = "error"

\* C9: when the decision backend raised in a turn on the non-streaming path,
\* the turn ends with the error transition, react_error holds the Step
\* Outcome's error, and the turn counter is as the turn found it.  The error
\* is the backend's failure as _execute_with_function_calling wrapped it,
\* unless the stats update of exec_async raised after it (the stats were reset
\* during the call): then it is that failure.
C9_BackendRaises ==
    (TurnOver /\ NonStreaming /\ turn.backend = "raised") =>
        /\ transition = "error"
        /\ react_shared.react_error # NoDict
        /\ react_shared.react_error = step_outcome.error
        /\ react_shared.react_error =
              IF turn.update_raised
              THEN ErrorText(REACT_EXEC_FAILED, Detail(ZeroDivisionError.exception))
              ELSE ErrorText(FUNCTION_CALLING_FAILED, Detail("backend error"))
        /\ TurnCounter = turn.cycle_before

C9_Witness ==
    /\ TurnOver
    /\ NonStreaming
    /\ turn.backend = "raised"
    /\ turn.n = 2
    /\ turn.cycle_before = 1
    /\ transition = "error"

\* C10: after exec_async of a turn in which the decision backend call failed
\* (non-streaming path), the Step Outcome is marked not successful,
\* failed_requests is 1 higher than before the turn and successful_requests
\* is unchanged.
C10_BackendFailureCounted ==
    (tpc = "applying" /\ NonStreaming /\ turn.backend = "raised") =>
        /\ step_outcome.decision_success = FALSE
        /\ performance_stats.failed_requests = turn.stats_before.failed_requests + 1
        /\ performance_stats.successful_requests =
              turn.stats_before.successful_requests

\* The number of latency samples recorded since construction or the last
\* reset: one per call of _update_average_response_time that assigned the
\* average.
RecordedSamples == turn.sample_count
AverageResponseTime == performance_stats.average_response_time

\* C11: for any sequence of turns, failed and successful requests mixed, the
\* average_response_time equals the arithmetic mean of the latency samples
\* that were recorded (and is 0 while none was).
C11_AverageIsMeanOfSamples ==
    AverageResponseTime =
        IF RecordedSamples = 0 THEN Zero ELSE Frac(turn.sample_sum, RecordedSamples)

\* A failed request: exec_async did not get an answer from the backend, or
\* its stats update raised (the stats were reset during the call).
RequestFailed == turn.backend \in {"not called", "raised"} \/ turn.update_raised

\* C12: whenever exec_async returns (for every preparation result and every
\* behaviour of the backend, returning or raising), it hands a Step Outcome to
\* post_async; when the preparation result carried an error, the message
\* builder raised, the backend raised or the stats update raised, that outcome
\* has decision_success false, the generic user message and an error that
\* holds the specific failure; otherwise the outcome is marked successful and
\* carries no error.
C12_ExecNeverPropagates ==
    tpc = "applying" =>
        /\ step_outcome # NoDict
        /\ {"user_message", "decision_success"} \subseteq DOMAIN step_outcome
        /\ turn.backend \in {"not called", "raised", "returned"}
        /\ RequestFailed =>
              /\ step_outcome.decision_success = FALSE
              /\ step_outcome.user_message.text = GENERIC_ERROR
              /\ "error" \in DOMAIN step_outcome
              /\ step_outcome.error.prefix \in {REACT_EXEC_FAILED, FUNCTION_CALLING_FAILED}
              /\ step_outcome.error.detail \in
                    IF turn.prep_failed THEN {prep_result.error}
                    ELSE IF turn.backend = "not called"
                    THEN {Detail("message builder error")}
                    ELSE IF turn.backend = "returned"
                    THEN {Detail(ZeroDivisionError.exception)}
                    ELSE IF turn.update_raised
                    THEN {Detail(ZeroDivisionError.exception)}
                    ELSE {Detail("backend error")}
        /\ ~RequestFailed =>
              /\ step_outcome.decision_success = TRUE
              /\ ~("error" \in DOMAIN step_outcome)

C12_Witness ==
    /\ tpc = "applying"
    /\ turn.prep_failed
    /\ turn.backend = "not called"
    /\ step_outcome.decision_success = FALSE
    /\ step_outcome.error.detail = prep_result.error

\* The Step Outcome's reply text and Tool Outcomes, and the message post_async
\* handed to the unified context in this turn.
ReplyOf(outcome) == outcome.user_message
Last(seq) == seq[Len(seq)]
MessageRecorded == context # turn.context_before
NamesWhere(tool_calls, flag) ==
    {tool_calls[i].tool_name : i \in {j \in 1..Len(tool_calls) : tool_calls[j].success = flag}}

\* C13: in the applying phase a turn with a reply text or a Tool Outcome
\* records exactly one assistant message; when the reply text is empty and
\* there are Tool Outcomes, the message is non-empty: it names every tool that
\* succeeded and no tool that failed when at least one succeeded, and it is
\* the fixed fallback message when all failed; a non-empty reply text is
\* recorded unchanged.
C13_SynthesizedMessage ==
    /\ (TurnOver /\ transition = "wait_for_user"
           /\ (TruthyContent(ReplyOf(step_outcome)) \/ ToolCallsOf(step_outcome) # <<>>))
          => MessageRecorded
    /\ (TurnOver /\ MessageRecorded) =>
          LET reply == ReplyOf(step_outcome)
              tool_calls == ToolCallsOf(step_outcome)
              recorded == Last(context.messages).content
          IN /\ Len(context.messages) = Len(turn.context_before.messages) + 1
             /\ IF TruthyContent(reply) THEN recorded = reply
                ELSE IF NamesWhere(tool_calls, TRUE) # {}
                THEN /\ "summary_of" \in DOMAIN recorded
                     /\ recorded.summary_of # <<>>
                     /\ {recorded.summary_of[i] : i \in 1..Len(recorded.summary_of)}
                            = NamesWhere(tool_calls, TRUE)
                     /\ \A i \in 1..Len(tool_calls) :
                            ~tool_calls[i].success =>
                               \A k \in 1..Len(recorded.summary_of) :
                                  recorded.summary_of[k] # tool_calls[i].tool_name
                ELSE /\ tool_calls # <<>>
                     /\ recorded = [text |-> FallbackMessage, marker |-> "none"]
                     /\ recorded.text # ""

C13_Witness ==
    /\ TurnOver
    /\ transition = "wait_for_user"
    /\ ~TruthyContent(ReplyOf(step_outcome))
    /\ Len(ToolCallsOf(step_outcome)) = 2
    /\ NamesWhere(ToolCallsOf(step_outcome), TRUE) = {"search"}
    /\ NamesWhere(ToolCallsOf(step_outcome), FALSE) = {"design"}
    /\ Last(context.messages).content = [summary_of |-> <<"search">>]

\* C14 as claimed: a turn whose preparation failed does not call the backend,
\* ends with the error transition, and leaves every key of Shared State with
\* the value the turn found.
C14_PrepFailureMutatesNothing ==
    (turn.n > 0 /\ turn.prep_failed) =>
        /\ react_shared = turn.shared_before
        /\ tpc \in {"applying", "awaiting_turn"} => turn.backend = "not called"
        /\ TurnOver => transition = "error"

\* C14, amended: such a turn does not call the backend, ends with the error
\* transition, and changes no key of Shared State but react_error, which
\* post_async sets to the Step Outcome's error (the preparation error as
\* wrapped by exec_async); before post_async the turn changes no key at all.
C14_PrepFailureSetsOnlyError ==
    (turn.n > 0 /\ turn.prep_failed) =>
        /\ tpc # "awaiting_turn" => react_shared = turn.shared_before
        /\ tpc \in {"applying", "awaiting_turn"} => turn.backend = "not called"
        /\ TurnOver =>
              /\ transition = "error"
              /\ react_shared =
                    [turn.shared_before EXCEPT
                        !.react_error = ErrorText(REACT_EXEC_FAILED, prep_result.error)]
              /\ context = turn.context_before

C14_Witness ==
    /\ TurnOver
    /\ turn.n = 2
    /\ turn.prep_failed
    /\ turn.shared_before.react_error = NoDict
    /\ turn.shared_before.react_cycle_count = 1
    /\ Len(turn.shared_before.tool_execution_history) = 1
    /\ react_shared.react_error # NoDict

\* What a turn added to the three places post_async writes Tool Outcomes to.
Added(now, before) == SubSeq(now, Len(before) + 1, Len(now))
ContextToolHistoryAdded ==
    Added(context.tool_executions, turn.context_before.tool_executions)
FlatToolHistoryAdded ==
    Added(react_shared.tool_execution_history, turn.shared_before.tool_execution_history)
AppliedAdded ==
    Added(react_shared.applied_tool_results, turn.shared_before.applied_tool_results)
TurnApplied == TurnOver /\ transition = "wait_for_user"

\* C15: after the applying phase of a turn, every Tool Outcome of the turn,
\* successful or failed, has been recorded, in order, in the tool history of
\* the unified context and in the flat tool history of Shared State.
C15_AllOutcomesRecorded ==
    TurnApplied =>
        LET tool_calls == ToolCallsOf(step_outcome)
        IN /\ ContextToolHistoryAdded = tool_calls
           /\ FlatToolHistoryAdded =
                 [i \in 1..Len(tool_calls) |->
                     [tool_name |-> tool_calls[i].tool_name,
                      result |-> tool_calls[i].result]]

\* C16: the results a turn folds into Shared State are those of its
\* successful Tool Outcomes, in order, and never that of a failed one; a
\* turn with a failed Tool Outcome whose post-processing does not throw still
\* ends with wait_for_user.
C16_OnlySuccessfulApplied ==
    TurnOver =>
        LET tool_calls == ToolCallsOf(step_outcome)
            successful == SelectSeq(tool_calls, LAMBDA tc : tc.success)
        IN /\ \A k \in 1..Len(AppliedAdded) :
                 \E i \in 1..Len(tool_calls) :
                    tool_calls[i].success /\ tool_calls[i].tool_name = AppliedAdded[k]
           /\ TurnApplied =>
                 AppliedAdded = [i \in 1..Len(successful) |-> successful[i].tool_name]
           /\ (~("error" \in DOMAIN step_outcome) /\ ~turn.post_threw) => TurnApplied

C16_Witness ==
    /\ TurnApplied
    /\ Len(ToolCallsOf(step_outcome)) = 2
    /\ ~ToolCallsOf(step_outcome)[1].success
    /\ ToolCallsOf(step_outcome)[2].success
    /\ AppliedAdded = <<"search">>
    /\ Len(FlatToolHistoryAdded) = 2

\* C17: on the non-streaming path, when the backend's answer has no
\* structured invocation and its reply text holds the inline marker, the
\* reply text of the Step Outcome holds no marker, also when the marked block
\* is malformed; when the answer has structured invocations, their outcomes
\* are the Step Outcome's Tool Outcomes.
C17_MarkersStripped ==
    (tpc = "applying" /\ NonStreaming /\ turn.backend = "returned") =>
        /\ (turn.reply.structured = <<>> /\ turn.reply.marker # "none")
              => ReplyOf(step_outcome).marker = "none"
        /\ turn.reply.structured # <<>> =>
              ToolCallsOf(step_outcome) = turn.reply.structured

\* C19: post_async returns wait_for_user or error and nothing else; it returns
\* wait_for_user whenever the Step Outcome carries no error and the
\* post-processing did not throw, whatever the reply text and the Tool
\* Outcomes are; and whenever it returns error, Shared State holds the error's
\* description: the Step Outcome's error under react_error, or the thrown
\* error under react_post_error.
C19_TransitionLabels ==
    TurnOver =>
        /\ transition \in {"wait_for_user", "error"}
        /\ (~("error" \in DOMAIN step_outcome) /\ ~turn.post_threw)
              => transition = "wait_for_user"
        /\ transition = "error" =>
              IF "error" \in DOMAIN step_outcome
              THEN react_shared.react_error = step_outcome.error
              ELSE /\ turn.post_threw
                   /\ react_shared.react_post_error # NoDict
                   /\ react_shared.react_post_error.text # ""

C19_Witness ==
    /\ TurnOver
    /\ transition = "error"
    /\ turn.post_threw
    /\ ToolCallsOf(step_outcome) # <<>>
    /\ react_shared.react_post_error # NoDict
    /\ react_shared.react_error = NoDict

\* C20: a turn leaves the turn counter 1 higher than it found it if and only
\* if it ends with wait_for_user; a turn that ends with error, also one whose
\* post-processing threw after the Step Outcome was accepted, leaves the
\* counter as it found it.
C20_CounterIffWaitForUser ==
    TurnOver =>
        /\ (TurnCounter = turn.cycle_before + 1) <=> (transition = "wait_for_user")
        /\ transition = "error" => TurnCounter = turn.cycle_before

\* The four counters of the stats, and what they were when the turn began.
Counters == {"total_requests", "successful_requests", "failed_requests", "total_tool_calls"}
StatsBefore == turn.stats_before
SumsUp(stats) ==
    stats.total_requests = stats.successful_requests + stats.failed_requests
\* The stats as one call of exec_async may leave them, given what it found
\* and the Step Outcome it returned.
OneRequestCounted(stats, before, outcome) ==
    /\ stats.total_requests = before.total_requests + 1
    /\ \A c \in Counters : stats[c] >= before[c]
    /\ \/ /\ stats.successful_requests = before.successful_requests + 1
          /\ stats.failed_requests = before.failed_requests
          /\ stats.total_tool_calls =
                before.total_tool_calls + Len(ToolCallsOf(outcome))
       \/ /\ stats.successful_requests = before.successful_requests
          /\ stats.failed_requests = before.failed_requests + 1
          /\ stats.total_tool_calls = before.total_tool_calls

\* C21: whenever no call of exec_async is under way, total_requests =
\* successful_requests + failed_requests; prep_async leaves the counters
\* alone; a call of exec_async that has returned left total_requests exactly
\* 1 higher than it was before the turn, lowered no counter, and raised
\* total_tool_calls by the number of Tool Outcomes of its Step Outcome when
\* it counted the request as successful (and by nothing otherwise); after the
\* turn the counters are still those, unless reset_stats has since set them
\* all to 0.
C21_CountersConsistent ==
    /\ \A c \in Counters : performance_stats[c] >= 0
    /\ tpc \in {"awaiting_turn", "deciding", "applying"} => SumsUp(performance_stats)
    /\ tpc = "deciding" => performance_stats = StatsBefore
    /\ tpc = "applying" =>
          OneRequestCounted(performance_stats, StatsBefore, step_outcome)
    /\ TurnOver =>
          \/ performance_stats = InitialStats
          \/ OneRequestCounted(performance_stats, StatsBefore, step_outcome)

====
